---- MODULE Spec2Model ----
(***************************************************************************)
(* Intrusive doubly-linked list (intrusive::list, list_element_base).      *)
(* Nodes are the embedded list_element_base records of host objects and    *)
(* the `dummy` sentinels of the lists; prev/next are their two pointer     *)
(* fields.  Every public operation is one action that performs exactly the *)
(* pointer stores of its C++ body, in source order.                        *)
(***************************************************************************)
EXTENDS Integers, Sequences, FiniteSets, TLC

\* Number of host objects (each embeds one list_element<Tag>).
NumMembers == 3
\* Number of list objects (each owns one sentinel `dummy`).
NumLists == 2
\* Number of further calls explored on a heap whose ring a call has broken.
MaxCallsOnBrokenRing == 2
\* Number of host objects that embed a node for each of two tags.
NumTaggedHosts == 2

Members == 1..NumMembers
\* The lists over the first tag.
Lists == 1..NumLists
\* The list over the second tag.
ListB == NumLists + 1
AllLists == Lists \cup {ListB}
TaggedHosts == 1..NumTaggedHosts
\* The sentinel node embedded in list l (list::dummy).
dummy(l) == NumMembers + l
\* Mutant of as_base: the cast ignores the tag and yields the first base.
as_base_untagged(l, v) == v
\* as_base(value): the list_element<Tag> base of host v for the tag of list l.
\* The base for the first tag is the node v itself.
as_base(l, v) == IF l \in Lists THEN v ELSE NumMembers + NumLists + 1 + v
Nodes == 1..(NumMembers + NumLists + 1 + NumTaggedHosts)
Sentinels == {dummy(l) : l \in Lists}
NumNodes == NumMembers + NumLists + 1 + NumTaggedHosts

VARIABLES
  prev,     \* list_element_base::prev of every node
  next,     \* list_element_base::next of every node
  alive,    \* nodes whose lifetime has begun and not ended
  op,       \* the last operation: its name, arguments and returned iterator
  pprev,    \* prev before the last operation
  pnext,    \* next before the last operation
  palive,   \* alive before the last operation
  ref,      \* reference model: the abstract sequence of every list
  strayed   \* number of calls started on a heap whose ring was broken

vars == <<prev, next, alive, op, pprev, pnext, palive, ref, strayed>>

\* The pointer fields of all nodes, as one value the primitives transform.
Heap == [prev |-> prev, next |-> next]
PreHeap == [prev |-> pprev, next |-> pnext]

----------------------------------------------------------------------------
\* list_element_base primitives (src/unnamed/part_000)

\* list_element_base(): prev(this), next(this)
construct(h, n) ==
  [prev |-> [h.prev EXCEPT ![n] = n], next |-> [h.next EXCEPT ![n] = n]]

\* Mutant of link: the store b->prev = a is forgotten.
link_one_way(h, a, b) ==
  [prev |-> h.prev, next |-> [h.next EXCEPT ![a] = b]]

\* link(a, b): a->next = b; b->prev = a;
link(h, a, b) ==
  [prev |-> [h.prev EXCEPT ![b] = a], next |-> [h.next EXCEPT ![a] = b]]

\* Mutant of unlink: this is reset but its neighbours are not joined.
unlink_no_join(h, n) ==
  [prev |-> [h.prev EXCEPT ![n] = n], next |-> [h.next EXCEPT ![n] = n]]

\* unlink(): link(prev, next); prev = next = this;
unlink(h, n) ==
  LET h1 == link(h, h.prev[n], h.next[n])
  IN  [prev |-> [h1.prev EXCEPT ![n] = n], next |-> [h1.next EXCEPT ![n] = n]]

\* is_linked(): prev != this
is_linked(h, n) == h.prev[n] # n

\* Mutant of copy_assign: the two pointers are copied field by field.
copy_fieldwise(h, this, other) ==
  [prev |-> [h.prev EXCEPT ![this] = h.prev[other]],
   next |-> [h.next EXCEPT ![this] = h.next[other]]]

\* operator=(const list_element_base& other)
copy_assign(h, this, other) ==
  IF this = other THEN h ELSE unlink(h, this)

\* Mutant of move_assign: the source keeps its pointers after the transfer.
move_keep_source(h, this, other) ==
  IF this = other THEN h
  ELSE LET h1 == unlink(h, this)
       IN  IF is_linked(h1, other)
           THEN LET h2 == [h1 EXCEPT !.prev = [h1.prev EXCEPT ![this] = h1.prev[other]]]
                    h3 == [h2 EXCEPT !.next = [h2.next EXCEPT ![this] = h2.next[other]]]
                    h4 == [h3 EXCEPT !.next = [h3.next EXCEPT ![h3.prev[this]] = this]]
                IN  [h4 EXCEPT !.prev = [h4.prev EXCEPT ![h4.next[this]] = this]]
           ELSE h1

\* The transfer of other's ring position to this (the body of move_assign
\* after unlink()).
take_position(h1, this, other) ==
  IF is_linked(h1, other)
  THEN LET h2 == [h1 EXCEPT !.prev = [h1.prev EXCEPT ![this] = h1.prev[other],
                                                     ![other] = other]]
           h3 == [h2 EXCEPT !.next = [h2.next EXCEPT ![this] = h2.next[other],
                                                     ![other] = other]]
           h4 == [h3 EXCEPT !.next = [h3.next EXCEPT ![h3.prev[this]] = this]]
       IN  [h4 EXCEPT !.prev = [h4.prev EXCEPT ![h4.next[this]] = this]]
  ELSE h1

\* Mutant of move_assign: the identity check is missing.
move_no_self_check(h, this, other) == take_position(unlink(h, this), this, other)

\* Mutant of move_assign: this is not unlinked from its old ring first.
move_no_unlink(h, this, other) ==
  IF this = other THEN h ELSE take_position(h, this, other)

\* operator=(list_element_base&& other)
move_assign(h, this, other) ==
  IF this = other THEN h
  ELSE LET h1 == unlink(h, this)
       IN  IF is_linked(h1, other)
           THEN LET \* prev = std::exchange(other.prev, &other);
                    h2 == [h1 EXCEPT !.prev = [h1.prev EXCEPT ![this] = h1.prev[other],
                                                              ![other] = other]]
                    \* next = std::exchange(other.next, &other);
                    h3 == [h2 EXCEPT !.next = [h2.next EXCEPT ![this] = h2.next[other],
                                                              ![other] = other]]
                    \* prev->next = this;
                    h4 == [h3 EXCEPT !.next = [h3.next EXCEPT ![h3.prev[this]] = this]]
                    \* next->prev = this;
                    h5 == [h4 EXCEPT !.prev = [h4.prev EXCEPT ![h4.next[this]] = this]]
                IN  h5
           ELSE h1

\* list_element_base(const list_element_base&) : list_element_base() {}
copy_construct(h, this, other) == construct(h, this)

\* list_element_base(list_element_base&& other) : list_element_base() { *this = std::move(other); }
move_construct(h, this, other) == move_assign(construct(h, this), this, other)

----------------------------------------------------------------------------
\* list observers and iteration (src/intrusive-list.h)

\* basic_iterator walk: the nodes visited from n by repeated ++ (nx = next) or
\* -- (nx = prev) until the iterator equals stop, cut after fuel steps.
RECURSIVE Follow(_, _, _, _)
Follow(nx, n, stop, fuel) ==
  IF n = stop \/ fuel = 0 THEN <<>>
  ELSE <<n>> \o Follow(nx, nx[n], stop, fuel - 1)

\* begin(): iterator(dummy.next);  end(): iterator(&dummy)
begin(h, l) == h.next[dummy(l)]
end(l) == dummy(l)

\* for (it = begin(); it != end(); ++it): the members in forward order
Items(h, l) == Follow(h.next, begin(h, l), end(l), NumNodes)
\* for (it = end(); it != begin(); ) --it: the members in backward order
ItemsBack(h, l) == Follow(h.prev, h.prev[end(l)], end(l), NumNodes)

\* empty(): !dummy.is_linked()
empty(h, l) == ~is_linked(h, dummy(l))
\* size(): std::distance(begin(), end())
size(h, l) == Len(Items(h, l))
\* front(): *begin()
front(h, l) == begin(h, l)
\* back(): *std::prev(end())
back(h, l) == h.prev[end(l)]

Range(s) == {s[i] : i \in 1..Len(s)}
\* The iterators that are positions of list l: its members and end().
Positions(h, l) == Range(Items(h, l)) \cup {end(l)}

----------------------------------------------------------------------------
\* list mutators (src/intrusive-list.h): the heap after the call

\* Mutant of insert: value is linked after pos instead of before it.
insert_after(h, pos, value) ==
  IF pos = value THEN h
  ELSE LET h1 == unlink(h, value)
           h2 == link(h1, value, h1.next[pos])
       IN  link(h2, pos, value)

\* Mutant of insert: value is not unlinked from its old ring first.
insert_no_unlink(h, pos, value) ==
  IF pos = value THEN h
  ELSE LET h2 == link(h, h.prev[pos], value)
       IN  link(h2, value, pos)

\* Mutant of insert: the check pos == value is missing.
insert_no_same_check(h, pos, value) ==
  LET h1 == unlink(h, value)
      h2 == link(h1, h1.prev[pos], value)
  IN  link(h2, value, pos)

\* insert(pos, value)
insert(h, pos, value) ==
  IF pos = value THEN h
  ELSE LET h1 == unlink(h, value)
           h2 == link(h1, h1.prev[pos], value)
       IN  link(h2, value, pos)
\* the iterator insert returns
insert_ret(pos, value) == IF pos = value THEN pos ELSE value

\* Mutant of erase: the neighbours are joined but pos keeps its own pointers.
erase_no_reset(h, pos) == link(h, h.prev[pos], h.next[pos])

\* erase(pos): auto nxt = pos->next; unlink(); return iterator(nxt)
erase(h, pos) == unlink(h, pos)
erase_ret(h, pos) == h.next[pos]

\* Mutant of clear: every member is unlinked by a traversal.
RECURSIVE unlink_all(_, _)
unlink_all(h, s) ==
  IF s = <<>> THEN h ELSE unlink_all(unlink(h, Head(s)), Tail(s))
clear_each(h, l) == unlink_all(h, Items(h, l))

\* Mutant of clear: the sentinel is reset without joining its neighbours.
clear_reset_only(h, l) == construct(h, dummy(l))

\* clear(): dummy.unlink()
clear(h, l) == unlink(h, dummy(l))

\* ~list_element_base() = default: no store is made to any other node. The
\* lifetime of n ends, so its storage holds indeterminate values p and q
\* afterwards (the stores made into it earlier may be dropped as dead, the
\* storage may be reused); reading them is undefined.
destroy(h, n, p, q) ==
  [prev |-> [h.prev EXCEPT ![n] = p], next |-> [h.next EXCEPT ![n] = q]]

\* Mutant of splice: the gap the range leaves behind is not closed.
splice_no_close(h, pos, first, last_exclusive) ==
  IF first = last_exclusive THEN h
  ELSE LET last == h.prev[last_exclusive]
           before_pos == h.prev[pos]
           h1 == link(h, before_pos, first)
       IN  link(h1, last, pos)

\* splice(pos, other, first, last_exclusive)
splice(h, pos, first, last_exclusive) ==
  IF first = last_exclusive THEN h
  ELSE LET last == h.prev[last_exclusive]
           before_pos == h.prev[pos]
           before_first == h.prev[first]
           after_last == h.next[last]
           h1 == link(h, before_pos, first)
           h2 == link(h1, last, pos)
       IN  link(h2, before_first, after_last)

----------------------------------------------------------------------------
\* Reference model: abstract sequences

Remove(s, v) == SelectSeq(s, LAMBDA x : x # v)
IndexOf(s, v) == IF v \in Range(s) THEN CHOOSE i \in 1..Len(s) : s[i] = v ELSE Len(s) + 1
\* s with v placed immediately before position p (end() when p is not in s)
PlaceBefore(s, p, v) ==
  LET i == IndexOf(s, p)
  IN  SubSeq(s, 1, i - 1) \o <<v>> \o SubSeq(s, i, Len(s))
RefInsert(r, l, pos, v) ==
  IF pos = v THEN r
  ELSE [k \in DOMAIN r |-> IF k = l THEN PlaceBefore(Remove(r[k], v), pos, v)
                           ELSE Remove(r[k], v)]
RefRemove(r, v) == [k \in DOMAIN r |-> Remove(r[k], v)]
Replace(s, a, b) == [i \in 1..Len(s) |-> IF s[i] = a THEN b ELSE s[i]]
RefReplace(r, a, b) == [k \in DOMAIN r |-> Replace(r[k], a, b)]
RECURSIVE RemoveAll(_, _)
RemoveAll(s, rng) ==
  IF rng = <<>> THEN s ELSE RemoveAll(Remove(s, Head(rng)), Tail(rng))
\* the range rng taken out of every list and placed before pos in list l
RefSplice(r, l, pos, rng) ==
  [k \in DOMAIN r |->
     IF k = l
     THEN LET s == RemoveAll(r[k], rng)
              i == IF pos \in Range(rng) THEN Len(s) + 1 ELSE IndexOf(s, pos)
          IN  SubSeq(s, 1, i - 1) \o rng \o SubSeq(s, i, Len(s))
     ELSE RemoveAll(r[k], rng)]

----------------------------------------------------------------------------
NoOp == [name |-> "none", list |-> 0, other |-> 0, pos |-> 0, val |-> 0,
         first |-> 0, last_exclusive |-> 0, ret |-> 0]

\* The previous call has returned: a new call may start.
Idle == op = NoOp

\* prev and next are mutual inverses at every node of S.
Linked(h, S) == \A n \in S : h.prev[h.next[n]] = n /\ h.next[h.prev[n]] = n

\* Stores the heap a call produced and leaves the record of the call.
Commit(h, o) ==
  /\ prev' = h.prev
  /\ next' = h.next
  /\ op' = o
  /\ pprev' = prev
  /\ pnext' = next
  /\ palive' = alive
  /\ strayed' = IF Linked(Heap, alive) THEN strayed ELSE strayed + 1

Init ==
  /\ prev = [n \in Nodes |-> n]
  /\ next = [n \in Nodes |-> n]
  /\ alive = {}
  /\ op = NoOp
  /\ pprev = [n \in Nodes |-> n]
  /\ pnext = [n \in Nodes |-> n]
  /\ palive = {}
  /\ ref = [l \in AllLists |-> <<>>]
  /\ strayed = 0

\* The call returns to its caller: the record of the call is dropped.
Return ==
  /\ op # NoOp
  /\ op' = NoOp
  /\ pprev' = prev
  /\ pnext' = next
  /\ palive' = alive
  /\ UNCHANGED <<prev, next, alive, ref, strayed>>

\* A host object is default-constructed: its node starts self-looped.
NodeConstruct(m) ==
  /\ Idle
  /\ m \in Members \ alive
  /\ Commit(construct(Heap, m), [NoOp EXCEPT !.name = "node_construct", !.val = m])
  /\ alive' = alive \cup {m}
  /\ ref' = ref

\* A host object that embeds a list_element for each of the two tags is
\* default-constructed: both of its nodes start self-looped.
HostConstruct(m) ==
  /\ Idle
  /\ m \in TaggedHosts
  /\ m \notin alive /\ as_base(ListB, m) \notin alive
  /\ Commit(construct(construct(Heap, m), as_base(ListB, m)),
            [NoOp EXCEPT !.name = "host_construct", !.val = m])
  /\ alive' = alive \cup {m, as_base(ListB, m)}
  /\ ref' = ref

\* list() = default: the sentinel is default-constructed.
ListConstruct(l) ==
  /\ Idle
  /\ dummy(l) \notin alive
  /\ Commit(construct(Heap, dummy(l)), [NoOp EXCEPT !.name = "list_construct", !.list = l])
  /\ alive' = alive \cup {dummy(l)}
  /\ ref' = ref

\* insert(pos, value): value joins the ring through its base for the list's tag.
Insert(l, pos, v) ==
  /\ Idle
  /\ dummy(l) \in alive /\ v \in Members /\ as_base(l, v) \in alive
  /\ pos \in Positions(Heap, l)
  /\ Commit(insert(Heap, pos, as_base(l, v)),
            [NoOp EXCEPT !.name = "insert", !.list = l, !.pos = pos,
                         !.val = as_base(l, v),
                         !.ret = insert_ret(pos, as_base(l, v))])
  /\ ref' = RefInsert(ref, l, pos, as_base(l, v))
  /\ alive' = alive

\* push_front(value): insert(begin(), value)
PushFront(l, v) ==
  /\ Idle
  /\ dummy(l) \in alive /\ v \in Members /\ as_base(l, v) \in alive
  /\ Commit(insert(Heap, begin(Heap, l), as_base(l, v)),
            [NoOp EXCEPT !.name = "push_front", !.list = l, !.pos = begin(Heap, l),
                         !.val = as_base(l, v)])
  /\ ref' = RefInsert(ref, l, begin(Heap, l), as_base(l, v))
  /\ alive' = alive

\* push_back(value): insert(end(), value)
PushBack(l, v) ==
  /\ Idle
  /\ dummy(l) \in alive /\ v \in Members /\ as_base(l, v) \in alive
  /\ Commit(insert(Heap, end(l), as_base(l, v)),
            [NoOp EXCEPT !.name = "push_back", !.list = l, !.pos = end(l),
                         !.val = as_base(l, v)])
  /\ ref' = RefInsert(ref, l, end(l), as_base(l, v))
  /\ alive' = alive

Erase(l, pos) ==
  /\ Idle
  /\ dummy(l) \in alive
  /\ pos \in Range(Items(Heap, l))
  /\ Commit(erase(Heap, pos),
            [NoOp EXCEPT !.name = "erase", !.list = l, !.pos = pos,
                         !.ret = erase_ret(Heap, pos)])
  /\ ref' = RefRemove(ref, pos)
  /\ alive' = alive

\* pop_front(): erase(begin())
PopFront(l) ==
  /\ Idle
  /\ dummy(l) \in alive
  /\ ~empty(Heap, l)
  /\ Commit(erase(Heap, begin(Heap, l)),
            [NoOp EXCEPT !.name = "pop_front", !.list = l, !.pos = begin(Heap, l)])
  /\ ref' = RefRemove(ref, begin(Heap, l))
  /\ alive' = alive

\* pop_back(): erase(std::prev(end()))
PopBack(l) ==
  /\ Idle
  /\ dummy(l) \in alive
  /\ ~empty(Heap, l)
  /\ Commit(erase(Heap, back(Heap, l)),
            [NoOp EXCEPT !.name = "pop_back", !.list = l, !.pos = back(Heap, l)])
  /\ ref' = RefRemove(ref, back(Heap, l))
  /\ alive' = alive

Clear(l) ==
  /\ Idle
  /\ dummy(l) \in alive
  /\ Commit(clear(Heap, l), [NoOp EXCEPT !.name = "clear", !.list = l])
  /\ ref' = [ref EXCEPT ![l] = <<>>]
  /\ alive' = alive

\* Host copy-construction: the new object's node is copy-constructed from src's.
NodeCopyConstruct(dst, src) ==
  /\ Idle
  /\ dst \in Members \ alive /\ src \in Members \cap alive
  /\ Commit(copy_construct(Heap, dst, src),
            [NoOp EXCEPT !.name = "node_copy_construct", !.val = dst, !.other = src])
  /\ alive' = alive \cup {dst}
  /\ ref' = ref

\* Host copy-assignment dst = src (self-assignment included).
NodeCopyAssign(dst, src) ==
  /\ Idle
  /\ dst \in Members \cap alive /\ src \in Members \cap alive
  /\ Commit(copy_assign(Heap, dst, src),
            [NoOp EXCEPT !.name = "node_copy_assign", !.val = dst, !.other = src])
  /\ alive' = alive
  /\ ref' = IF dst = src THEN ref ELSE RefRemove(ref, dst)

\* Host move-construction: the new object's node is move-constructed from src's.
NodeMoveConstruct(dst, src) ==
  /\ Idle
  /\ dst \in Members \ alive /\ src \in Members \cap alive
  /\ Commit(move_construct(Heap, dst, src),
            [NoOp EXCEPT !.name = "node_move_construct", !.val = dst, !.other = src])
  /\ alive' = alive \cup {dst}
  /\ ref' = RefReplace(RefRemove(ref, dst), src, dst)

\* Host move-assignment dst = std::move(src) (self-move included).
NodeMoveAssign(dst, src) ==
  /\ Idle
  /\ dst \in Members \cap alive /\ src \in Members \cap alive
  /\ Commit(move_assign(Heap, dst, src),
            [NoOp EXCEPT !.name = "node_move_assign", !.val = dst, !.other = src])
  /\ alive' = alive
  /\ ref' = IF dst = src THEN ref ELSE RefReplace(RefRemove(ref, dst), src, dst)

\* list(list&& other) = default: the sentinel is move-constructed from other's.
ListMoveConstruct(l, o) ==
  /\ Idle
  /\ dummy(l) \notin alive /\ dummy(o) \in alive
  /\ Commit(move_construct(Heap, dummy(l), dummy(o)),
            [NoOp EXCEPT !.name = "list_move_construct", !.list = l, !.other = o])
  /\ alive' = alive \cup {dummy(l)}
  /\ ref' = [ref EXCEPT ![l] = ref[o], ![o] = <<>>]

\* operator=(list&& other) = default: the sentinel is move-assigned from other's.
ListMoveAssign(l, o) ==
  /\ Idle
  /\ dummy(l) \in alive /\ dummy(o) \in alive
  /\ Commit(move_assign(Heap, dummy(l), dummy(o)),
            [NoOp EXCEPT !.name = "list_move_assign", !.list = l, !.other = o])
  /\ alive' = alive
  /\ ref' = IF l = o THEN ref ELSE [ref EXCEPT ![l] = ref[o], ![o] = <<>>]

\* [first, last_exclusive) is a range of list o: both are positions of o and
\* first is not after last_exclusive.
ValidRange(h, o, first, last_exclusive) ==
  LET s == Items(h, o)
  IN  /\ first \in Range(s) \cup {end(o)}
      /\ last_exclusive \in Range(s) \cup {end(o)}
      /\ IndexOf(s, first) <= IndexOf(s, last_exclusive)

\* The members of the range [first, last_exclusive) of list o, in order.
RangeItems(h, o, first, last_exclusive) ==
  LET s == Items(h, o)
  IN  SubSeq(s, IndexOf(s, first), IndexOf(s, last_exclusive) - 1)

\* l.splice(pos, o, first, last_exclusive)
Splice(l, pos, o, first, last_exclusive) ==
  /\ Idle
  /\ dummy(l) \in alive /\ dummy(o) \in alive
  /\ pos \in Positions(Heap, l)
  /\ ValidRange(Heap, o, first, last_exclusive)
  /\ pos \notin Range(RangeItems(Heap, o, first, last_exclusive))
  /\ Commit(splice(Heap, pos, first, last_exclusive),
            [NoOp EXCEPT !.name = "splice", !.list = l, !.pos = pos, !.other = o,
                         !.first = first, !.last_exclusive = last_exclusive])
  /\ alive' = alive
  /\ ref' = RefSplice(ref, l, pos, RangeItems(Heap, o, first, last_exclusive))

\* ~list_element_base() = default, run for a host object or for a list's sentinel.
Destroy(n) ==
  /\ Idle
  /\ n \in alive
  /\ \E p, q \in Nodes :
       Commit(destroy(Heap, n, p, q), [NoOp EXCEPT !.name = "destroy", !.val = n])
  /\ alive' = alive \ {n}
  /\ ref' = IF n \in Members THEN RefRemove(ref, n)
            ELSE [l \in DOMAIN ref |-> IF dummy(l) = n THEN <<>> ELSE ref[l]]

\* No live node points at a node whose lifetime has ended.
NoDangling == \A n \in alive : prev[n] \in alive /\ next[n] \in alive

NextList ==
  \/ \E m \in Members : NodeConstruct(m)
  \/ \E l \in Lists : ListConstruct(l)
  \/ \E l \in Lists, pos \in Nodes, v \in Members : Insert(l, pos, v)
  \/ \E l \in Lists, v \in Members : PushFront(l, v)
  \/ \E l \in Lists, v \in Members : PushBack(l, v)
  \/ \E l \in Lists, pos \in Members : Erase(l, pos)
  \/ \E l \in Lists : PopFront(l)
  \/ \E l \in Lists : PopBack(l)
  \/ \E l \in Lists : Clear(l)
  \/ \E dst, src \in Members : NodeCopyConstruct(dst, src)
  \/ \E dst, src \in Members : NodeCopyAssign(dst, src)
  \/ \E dst, src \in Members : NodeMoveConstruct(dst, src)
  \/ \E dst, src \in Members : NodeMoveAssign(dst, src)
  \/ \E l, o \in Lists : ListMoveConstruct(l, o)
  \/ \E l, o \in Lists : ListMoveAssign(l, o)
  \/ Return

\* Splices whose position is neither inside the range nor its last_exclusive
\* when the range lies in the same list.
SpliceApart ==
  /\ Idle
  /\ \E l, o \in Lists :
       \E pos \in Positions(Heap, l), first, last_exclusive \in Positions(Heap, o) :
         /\ (l = o /\ first # last_exclusive) => pos # last_exclusive
         /\ Splice(l, pos, o, first, last_exclusive)

\* Every splice of a valid range whose position is not a member of the range.
SpliceAny ==
  /\ Idle
  /\ \E l, o \in Lists :
       \E pos \in Positions(Heap, l), first, last_exclusive \in Positions(Heap, o) :
         Splice(l, pos, o, first, last_exclusive)

DestroyAny == \E n \in Nodes : Destroy(n)

NextSplice == NextList \/ SpliceApart
\* Once a splice has broken the ring the lists are no sequences any more;
\* the exploration stops at such a heap.
NextSpliceAny ==
  \/ Linked(Heap, alive) /\ NextList
  \/ Linked(Heap, alive) /\ SpliceAny
\* As NextSpliceAny, but a bounded number of calls is still made on a heap
\* whose ring a splice has broken.
NextSpliceOn ==
  \/ (Linked(Heap, alive) \/ strayed < MaxCallsOnBrokenRing) /\ NextList
  \/ (Linked(Heap, alive) \/ strayed < MaxCallsOnBrokenRing) /\ SpliceAny
\* The storage of the node destroyed last holds what it held before.
StorageKept ==
  op.name = "destroy" =>
    prev[op.val] = pprev[op.val] /\ next[op.val] = pnext[op.val]

\* An operation that follows a dangling pointer is undefined; the exploration
\* stops at a heap that holds one. When no live node refers to the destroyed
\* node, nothing reads its storage before it is constructed again: every
\* content of that storage is a state, and the exploration goes on from the
\* one that kept the earlier values.
NextDestroy ==
  \/ NoDangling /\ StorageKept /\ NextList
  \/ NoDangling /\ StorageKept /\ DestroyAny

\* The list operations on the lists of the first tag and on the list of the
\* second tag, over host objects that embed a node for each tag.
NextTags ==
  \/ \E m \in TaggedHosts : HostConstruct(m)
  \/ \E l \in AllLists : ListConstruct(l)
  \/ \E l \in AllLists, pos \in Nodes, v \in TaggedHosts : Insert(l, pos, v)
  \/ \E l \in AllLists, v \in TaggedHosts : PushFront(l, v)
  \/ \E l \in AllLists, v \in TaggedHosts : PushBack(l, v)
  \/ \E l \in AllLists, pos \in Nodes : Erase(l, pos)
  \/ \E l \in AllLists : PopFront(l)
  \/ \E l \in AllLists : PopBack(l)
  \/ \E l \in AllLists : Clear(l)
  \/ \E l, o \in Lists : ListMoveConstruct(l, o)
  \/ \E l, o \in Lists : ListMoveAssign(l, o)
  \/ SpliceApart
  \/ Return

\* push/pop/insert/erase/clear, node copy/move, list move.
Spec == Init /\ [][NextList]_vars
\* ... plus splice with pos apart from the range.
SpecSplice == Init /\ [][NextSplice]_vars
\* ... plus splice with pos anywhere outside the range.
SpecSpliceAny == Init /\ [][NextSpliceAny]_vars
\* ... and the calls that follow a splice that broke the ring.
SpecSpliceOn == Init /\ [][NextSpliceOn]_vars
\* ... plus destruction of host objects and lists.
SpecDestroy == Init /\ [][NextDestroy]_vars
\* List operations over two tags.
SpecTags == Init /\ [][NextTags]_vars

----------------------------------------------------------------------------
\* Helpers of the properties

Reverse(s) == [i \in 1..Len(s) |-> s[Len(s) + 1 - i]]
\* s with the sequence rng placed immediately before position p (end() when
\* p is not in s)
PlaceSeqBefore(s, p, rng) ==
  LET i == IndexOf(s, p)
  IN  SubSeq(s, 1, i - 1) \o rng \o SubSeq(s, i, Len(s))
\* The neighbours a member x of list l has in the sequence s of l.
SuccIn(s, l, x) == IF IndexOf(s, x) = Len(s) THEN dummy(l) ELSE s[IndexOf(s, x) + 1]
PredIn(s, l, x) == IF IndexOf(s, x) = 1 THEN dummy(l) ELSE s[IndexOf(s, x) - 1]
LiveLists == {l \in Lists : dummy(l) \in alive}
\* The list that held member v before the last operation (0 when none did).
HolderBefore(v) ==
  IF \E l \in Lists : dummy(l) \in palive /\ v \in Range(Items(PreHeap, l))
  THEN CHOOSE l \in Lists : dummy(l) \in palive /\ v \in Range(Items(PreHeap, l))
  ELSE 0

----------------------------------------------------------------------------
\* C1: ring invariant. After any sequence of push, pop, insert, erase, clear,
\* node copy/move construction and assignment and list move construction and
\* assignment, every live node n (member or sentinel) satisfies
\* n.next.prev == n and n.prev.next == n.
C1_RingInvariant ==
  \A n \in alive : prev[next[n]] = n /\ next[prev[n]] = n

\* A node was move-assigned from a linked source while some list holds two
\* members.
C1_Witness ==
  /\ op.name = "node_move_assign"
  /\ op.val # op.other
  /\ is_linked(PreHeap, op.other)
  /\ \E l \in LiveLists : size(Heap, l) >= 2

\* C2: refinement of an abstract sequence. Forward iteration of every list
\* yields the reference sequence, backward iteration yields its reverse, and
\* size(), front() and back() are the reference's length, first and last
\* element.
C2_RefinesSequence ==
  \A l \in LiveLists :
    /\ Items(Heap, l) = ref[l]
    /\ ItemsBack(Heap, l) = Reverse(ref[l])
    /\ size(Heap, l) = Len(ref[l])
    /\ ref[l] # <<>> => /\ front(Heap, l) = ref[l][1]
                        /\ back(Heap, l) = ref[l][Len(ref[l])]

\* A member taken from elsewhere was inserted before a member of a list that
\* now holds three.
C2_Witness ==
  /\ op.name = "insert"
  /\ op.pos \in Members
  /\ op.pos # op.val
  /\ Len(ref[op.list]) = 3
  /\ Items(Heap, op.list) = ref[op.list]

\* C3: destroying a host object that is a member of a list unlinks it: the
\* list then iterates the remaining members in their previous order and no
\* surviving node's prev or next refers to the destroyed node.
C3_DestroyMemberUnlinks ==
  (op.name = "destroy" /\ op.val \in Members /\ HolderBefore(op.val) # 0) =>
    /\ \A n \in alive : prev[n] # op.val /\ next[n] # op.val
    /\ NoDangling =>
         Items(Heap, HolderBefore(op.val))
           = Remove(Items(PreHeap, HolderBefore(op.val)), op.val)

\* C4: cross-list splice. l.splice(pos, o, first, last_exclusive) with o # l
\* and a non-empty range removes exactly the range from o, keeping the order
\* of the rest (o is empty when the range was [begin, end)), and places the
\* range in l immediately before pos in its original order; ++ and -- on a
\* moved member report its neighbours within l.
C4_SpliceAcross ==
  (op.name = "splice" /\ op.list # op.other /\ op.first # op.last_exclusive) =>
    LET rng == RangeItems(PreHeap, op.other, op.first, op.last_exclusive)
        now == Items(Heap, op.list)
    IN  /\ Items(Heap, op.other) = RemoveAll(Items(PreHeap, op.other), rng)
        /\ rng = Items(PreHeap, op.other) => empty(Heap, op.other)
        /\ now = PlaceSeqBefore(Items(PreHeap, op.list), op.pos, rng)
        /\ ItemsBack(Heap, op.list) = Reverse(now)
        /\ \A x \in Range(rng) : /\ next[x] = SuccIn(now, op.list, x)
                                 /\ prev[x] = PredIn(now, op.list, x)

\* Two members were spliced from one list to before a member of another.
C4_Witness ==
  /\ op.name = "splice"
  /\ op.list # op.other
  /\ op.pos \in Members
  /\ Len(RangeItems(PreHeap, op.other, op.first, op.last_exclusive)) = 2
  /\ size(Heap, op.list) = 3

\* C5: same-list splice. l.splice(pos, l, first, last_exclusive) with a
\* non-empty range and pos not a member of the range (pos == last_exclusive
\* included) keeps exactly the members of l, with the range immediately
\* before pos in its original order and the other members in their order;
\* the sequence is unchanged when pos == last_exclusive, and next/prev stay
\* mutual inverses.
C5_SpliceWithin ==
  (op.name = "splice" /\ op.list = op.other /\ op.first # op.last_exclusive) =>
    LET pre == Items(PreHeap, op.list)
        rng == RangeItems(PreHeap, op.list, op.first, op.last_exclusive)
    IN  /\ Items(Heap, op.list) = PlaceSeqBefore(RemoveAll(pre, rng), op.pos, rng)
        /\ op.pos = op.last_exclusive => Items(Heap, op.list) = pre
        /\ Linked(Heap, alive)

\* C6: after clear() on a list of n >= 1 members every former member reports
\* is_linked() == true.
C6_ClearedMembersLinked ==
  (op.name = "clear" /\ Items(PreHeap, op.list) # <<>>) =>
    \A m \in Range(Items(PreHeap, op.list)) : is_linked(Heap, m)

\* C6 as amended: after clear() on a list of n >= 2 members every former
\* member reports is_linked() == true; after clear() on a list of exactly
\* one member that member is self-looped and reports is_linked() == false.
C6_ClearedMembersLinkedFromTwo ==
  op.name = "clear" =>
    LET pre == Items(PreHeap, op.list)
    IN  /\ Len(pre) >= 2 => \A m \in Range(pre) : is_linked(Heap, m)
        /\ Len(pre) = 1 => /\ ~is_linked(Heap, pre[1])
                           /\ prev[pre[1]] = pre[1] /\ next[pre[1]] = pre[1]

\* A list of at least two members was cleared.
C6_Witness ==
  /\ op.name = "clear"
  /\ Len(Items(PreHeap, op.list)) >= 2
  /\ \A m \in Range(Items(PreHeap, op.list)) : is_linked(Heap, m)

\* C7: clear() makes the list empty (empty(), size() == 0, begin() == end(),
\* sentinel self-looped) and changes only the sentinel and its two former
\* neighbours; the former members keep their order in a ring without the
\* sentinel, and none of them refers to the sentinel.
C7_ClearDetachesSentinel ==
  op.name = "clear" =>
    LET l == op.list
        d == dummy(op.list)
        pre == Items(PreHeap, op.list)
        n == Len(Items(PreHeap, op.list))
    IN  /\ empty(Heap, l) /\ size(Heap, l) = 0 /\ begin(Heap, l) = end(l)
        /\ prev[d] = d /\ next[d] = d
        /\ \A x \in Nodes \ {d, pprev[d], pnext[d]} :
             prev[x] = pprev[x] /\ next[x] = pnext[x]
        /\ \A i \in 1..n : /\ next[pre[i]] = pre[(i % n) + 1]
                           /\ prev[pre[(i % n) + 1]] = pre[i]
        /\ \A x \in Range(pre) : prev[x] # d /\ next[x] # d

\* A list of three members was cleared.
C7_Witness ==
  /\ op.name = "clear"
  /\ Len(Items(PreHeap, op.list)) = 3
  /\ empty(Heap, op.list)

\* C8: destroying a non-empty list unlinks its sentinel as clear() does: no
\* surviving member's prev or next refers to the destroyed sentinel and the
\* former members form a ring among themselves, so inserting one of them
\* into another list touches only live nodes.
C8_DestroyListUnlinks ==
  (op.name = "destroy" /\ op.val \in Sentinels /\ is_linked(PreHeap, op.val)) =>
    /\ \A m \in Members \cap alive : prev[m] # op.val /\ next[m] # op.val
    /\ \A m \in Members \cap alive : prev[m] \in alive /\ next[m] \in alive
    /\ NoDangling => Linked(Heap, alive)

\* C9: insert(pos, v) into list L2 of a value v that is a member of another
\* list L1 removes v from L1 (size - 1, order of the rest kept) and makes v
\* the member of L2 immediately before pos (size + 1, others keep their
\* order); the returned iterator refers to v.
C9_InsertFromOtherList ==
  (op.name = "insert" /\ HolderBefore(op.val) \notin {0, op.list}) =>
    LET l1 == HolderBefore(op.val)
        l2 == op.list
    IN  /\ Items(Heap, l1) = Remove(Items(PreHeap, l1), op.val)
        /\ size(Heap, l1) = size(PreHeap, l1) - 1
        /\ Items(Heap, l2) = PlaceBefore(Items(PreHeap, l2), op.pos, op.val)
        /\ size(Heap, l2) = size(PreHeap, l2) + 1
        /\ op.ret = op.val

\* A member of a two-member list was inserted before a member of another.
C9_Witness ==
  /\ op.name = "insert"
  /\ HolderBefore(op.val) \notin {0, op.list}
  /\ size(PreHeap, HolderBefore(op.val)) = 2
  /\ op.pos \in Members
  /\ op.ret = op.val

\* C10: erase(pos) of a member x removes exactly x: the remaining members
\* keep their order, size() decreases by one, x ends self-looped
\* (is_linked() == false), and the returned iterator refers to the member
\* that followed x, or equals end() if x was the last member.
C10_EraseRemovesOne ==
  op.name = "erase" =>
    LET l == op.list
        x == op.pos
        pre == Items(PreHeap, op.list)
    IN  /\ Items(Heap, l) = Remove(pre, x)
        /\ size(Heap, l) = Len(pre) - 1
        /\ prev[x] = x /\ next[x] = x /\ ~is_linked(Heap, x)
        /\ op.ret = SuccIn(pre, l, x)

\* The middle member of a three-member list was erased.
C10_Witness ==
  /\ op.name = "erase"
  /\ Len(Items(PreHeap, op.list)) = 3
  /\ Items(PreHeap, op.list)[2] = op.pos
  /\ op.ret = Items(PreHeap, op.list)[3]

\* The node moves and copies between two distinct host objects.
IsNodeMove == op.name \in {"node_move_assign", "node_move_construct"} /\ op.val # op.other
IsNodeCopy == op.name \in {"node_copy_assign", "node_copy_construct"} /\ op.val # op.other
SelfLooped(n) == prev[n] = n /\ next[n] = n

\* C11: node move dst <- src (dst # src). If src is a member of list L at
\* index i, then dst occupies index i of L in place of src, every other
\* member of L keeps its relative order, dst is no longer a member of the
\* list that held it before, and src is self-looped; if src was unlinked,
\* dst and src both end self-looped.
C11_NodeMoveTakesIndex ==
  IsNodeMove =>
    LET dst == op.val
        src == op.other
        L == HolderBefore(op.other)
        pre == Items(PreHeap, HolderBefore(op.other))
        now == Items(Heap, HolderBefore(op.other))
        i == IndexOf(Items(PreHeap, HolderBefore(op.other)), op.other)
    IN  /\ L # 0 =>
             /\ Len(now) >= i /\ now[i] = dst
             /\ Remove(now, dst) = Remove(Remove(pre, src), dst)
             /\ HolderBefore(dst) # 0 =>
                  dst \notin Range(Items(Heap, HolderBefore(dst)))
             /\ SelfLooped(src)
        /\ ~is_linked(PreHeap, src) => SelfLooped(dst) /\ SelfLooped(src)

\* C11 as amended: if src is a member of list L, then afterwards L is its
\* former sequence with dst removed and src replaced by dst (dst stands at
\* src's index i, or at i - 1 when dst itself was a member of L ahead of
\* src), dst is no longer a member of any other list, whose members keep
\* their order, and src is self-looped; if src was unlinked, dst and src
\* both end self-looped.
C11_NodeMoveTakesPosition ==
  IsNodeMove =>
    LET dst == op.val
        src == op.other
        L == HolderBefore(op.other)
    IN  /\ L # 0 =>
             /\ Items(Heap, L) = Replace(Remove(Items(PreHeap, L), dst), src, dst)
             /\ \A k \in LiveLists \ {L} :
                  Items(Heap, k) = Remove(Items(PreHeap, k), dst)
             /\ SelfLooped(src)
        /\ ~is_linked(PreHeap, src) => SelfLooped(dst) /\ SelfLooped(src)

\* A member of one list was move-assigned from a member of another list that
\* held two.
C11_Witness ==
  /\ op.name = "node_move_assign"
  /\ op.val # op.other
  /\ HolderBefore(op.other) # 0
  /\ HolderBefore(op.val) \notin {0, HolderBefore(op.other)}
  /\ size(PreHeap, HolderBefore(op.other)) = 2
  /\ op.val \in Range(Items(Heap, HolderBefore(op.other)))

\* C12: node copy dst <- src (dst # src), whatever the link state of both:
\* dst ends self-looped, dst is removed from the list that held it with the
\* other members keeping their order, and src stays where it was (or stays
\* unlinked).
C12_NodeCopyUnlinksDst ==
  IsNodeCopy =>
    /\ SelfLooped(op.val) /\ ~is_linked(Heap, op.val)
    /\ \A k \in LiveLists : Items(Heap, k) = Remove(Items(PreHeap, k), op.val)
    /\ HolderBefore(op.other) # 0 =>
         op.other \in Range(Items(Heap, HolderBefore(op.other)))
    /\ ~is_linked(PreHeap, op.other) => SelfLooped(op.other)

\* A member was copy-assigned from another member of the same list.
C12_Witness ==
  /\ op.name = "node_copy_assign"
  /\ op.val # op.other
  /\ HolderBefore(op.val) # 0
  /\ HolderBefore(op.val) = HolderBefore(op.other)
  /\ size(PreHeap, HolderBefore(op.val)) = 3
  /\ SelfLooped(op.val)

\* C13: self-move-assignment and self-copy-assignment of a node change no
\* prev/next field of any node.
C13_SelfAssignIsNoOp ==
  (op.name \in {"node_move_assign", "node_copy_assign"} /\ op.val = op.other) =>
    prev = pprev /\ next = pnext

\* A member of a list was move-assigned from itself.
C13_Witness ==
  /\ op.name = "node_move_assign"
  /\ op.val = op.other
  /\ HolderBefore(op.val) # 0
  /\ is_linked(Heap, op.val)

\* C14: list move dst <- src (dst # src): dst iterates exactly the sequence
\* src held before and src is empty; on move-assignment the members dst held
\* before are reachable from neither list and none refers to dst's sentinel.
C14_ListMoveTransfers ==
  (op.name \in {"list_move_construct", "list_move_assign"} /\ op.list # op.other) =>
    /\ Items(Heap, op.list) = Items(PreHeap, op.other)
    /\ ItemsBack(Heap, op.list) = Reverse(Items(PreHeap, op.other))
    /\ Items(Heap, op.other) = <<>> /\ empty(Heap, op.other)
    /\ op.name = "list_move_assign" =>
         \A m \in Range(Items(PreHeap, op.list)) :
           /\ m \notin Range(Items(Heap, op.list)) \cup Range(Items(Heap, op.other))
           /\ prev[m] # dummy(op.list) /\ next[m] # dummy(op.list)

\* A list holding one member was move-assigned from a list holding two.
C14_Witness ==
  /\ op.name = "list_move_assign"
  /\ op.list # op.other
  /\ size(PreHeap, op.list) = 1
  /\ size(PreHeap, op.other) = 2
  /\ size(Heap, op.list) = 2

\* C15: in every state reachable by the public operations used within their
\* preconditions (splice of a valid range with pos outside it included), the
\* three emptiness observations of a list agree: empty() iff begin() == end()
\* iff size() == 0.
C15_EmptinessAgrees ==
  \A l \in LiveLists :
    /\ empty(Heap, l) <=> begin(Heap, l) = end(l)
    /\ begin(Heap, l) = end(l) <=> size(Heap, l) = 0

\* C16: a host object is a member of at most one list: the member sets of
\* two distinct lists are disjoint and no ring contains two sentinels.
C16_OneListPerMember ==
  \A l \in LiveLists :
    /\ \A k \in LiveLists \ {l} :
         Range(Items(Heap, l)) \cap Range(Items(Heap, k)) = {}
    /\ Range(Items(Heap, l)) \cap Sentinels = {}

\* C18: re-use after clear(). Inserting or pushing a member that is linked
\* in a ring without a sentinel (what clear() leaves) puts it at the
\* requested position of the list, leaves the other lists as they were, no
\* list visits a member left in that ring, next/prev stay mutual inverses,
\* and the members left behind stay in a ring of their own, in their order.
C18_ReuseAfterClear ==
  (/\ op.name \in {"insert", "push_front", "push_back"}
   /\ HolderBefore(op.val) = 0
   /\ is_linked(PreHeap, op.val)) =>
    LET v == op.val
        rest == Follow(pnext, pnext[op.val], op.val, NumNodes)
        n == Len(Follow(pnext, pnext[op.val], op.val, NumNodes))
    IN  /\ Items(Heap, op.list) = PlaceBefore(Items(PreHeap, op.list), op.pos, v)
        /\ \A k \in LiveLists \ {op.list} : Items(Heap, k) = Items(PreHeap, k)
        /\ \A k \in LiveLists : Range(rest) \cap Range(Items(Heap, k)) = {}
        /\ Linked(Heap, alive)
        /\ Range(rest) \cap Sentinels = {}
        /\ \A i \in 1..n : /\ next[rest[i]] = rest[(i % n) + 1]
                           /\ prev[rest[(i % n) + 1]] = rest[i]

\* A member of a cleared three-member list was inserted before a member of
\* a list; two former members are left in their ring.
C18_Witness ==
  /\ op.name = "insert"
  /\ HolderBefore(op.val) = 0
  /\ is_linked(PreHeap, op.val)
  /\ Len(Follow(pnext, pnext[op.val], op.val, NumNodes)) = 2
  /\ Items(Heap, op.list) = <<op.val>>
  /\ next[pnext[op.val]] = pprev[op.val]

\* C19: insert(pos, v) with pos referring to v changes no prev/next field and
\* returns an iterator to v; insert(pos, v) with v elsewhere in the same list
\* moves v to immediately before pos, size() unchanged, and leaves the
\* sequence unchanged when v already was immediately before pos.
C19_InsertWithinList ==
  op.name \in {"insert", "push_front", "push_back"} =>
    LET v == op.val
        l == op.list
        pre == Items(PreHeap, op.list)
    IN  /\ op.pos = v => /\ prev = pprev /\ next = pnext
                         /\ op.name = "insert" => op.ret = v
        /\ (op.pos # v /\ HolderBefore(v) = l) =>
             /\ Items(Heap, l) = PlaceBefore(Remove(pre, v), op.pos, v)
             /\ size(Heap, l) = Len(pre)
             /\ op.name = "insert" => op.ret = v
             /\ SuccIn(pre, l, v) = op.pos => Items(Heap, l) = pre

\* The last member of a three-member list was inserted before its first.
C19_Witness ==
  /\ op.name = "insert"
  /\ HolderBefore(op.val) = op.list
  /\ Len(Items(PreHeap, op.list)) = 3
  /\ Items(PreHeap, op.list)[3] = op.val
  /\ Items(PreHeap, op.list)[1] = op.pos
  /\ Items(Heap, op.list)[1] = op.val

\* C20: traversal terminates. Following next from a list's sentinel returns
\* to that sentinel after at most as many steps as there are live nodes, so
\* size() and an iteration from begin() to end() terminate.
C20_TraversalTerminates ==
  \A l \in LiveLists :
    Len(Follow(next, begin(Heap, l), end(l), Cardinality(alive)))
      < Cardinality(alive)

\* The nodes of the tag of list l: the bases of the host objects for that
\* tag and the sentinels of the lists over it.
TagNodes(l) ==
  IF l \in Lists THEN Members \cup Sentinels
  ELSE {as_base(ListB, m) : m \in TaggedHosts} \cup {dummy(ListB)}

\* C17: tag independence. For host objects that embed a node for each of two
\* tags, every operation of a list over one tag (push, pop, insert, erase,
\* splice, clear, list move) leaves prev and next of every node of the other
\* tag unchanged, so the sequence of every list over the other tag is
\* unchanged.
C17_TagIndependence ==
  op.name \in {"insert", "push_front", "push_back", "erase", "pop_front",
               "pop_back", "clear", "splice", "list_move_construct",
               "list_move_assign"} =>
    /\ \A n \in Nodes \ TagNodes(op.list) :
         prev[n] = pprev[n] /\ next[n] = pnext[n]
    /\ \A k \in AllLists :
         (dummy(k) \in alive /\ dummy(k) \notin TagNodes(op.list)) =>
           Items(Heap, k) = Items(PreHeap, k)

\* A host object that is the second of two members of the list over the
\* second tag was inserted into a list over the first tag: it is a member of
\* both.
C17_Witness ==
  /\ op.name = "insert"
  /\ op.list \in Lists
  /\ op.val \in Range(Items(Heap, op.list))
  /\ Len(Items(Heap, ListB)) = 2
  /\ Items(Heap, ListB)[2] = as_base(ListB, op.val)

====
